---- MODULE Spec2Model ----
(***************************************************************************)
(* State-machine model of the sermon authoring application (src/App.tsx).  *)
(*                                                                         *)
(* The App component is single-threaded and event driven: every action of  *)
(* the model is one run-to-completion piece of a handler (from its entry,  *)
(* or from the resumption after an await, to the next await or return).    *)
(* Requests to the document store and to the generation service are kept   *)
(* as records "in flight" that hold what the suspended handler's closure   *)
(* captured.  Time is counted in seconds and advances with Tick; a timer   *)
(* that is due runs before time advances further.                          *)
(***************************************************************************)
EXTENDS Integers, Sequences, FiniteSets, TLC

VARIABLES
    \* ---- document and presentation state (App.tsx 131-152)
    sermonData,               \* the outline, or Null
    presentationData,         \* the presentation rewrite, or Null
    isLoading,                \* an outline generation is running
    error,                    \* NoMessage or a message
    isEditing,
    currentPassage,
    isPresentationMode,
    isGeneratingPresentation,
    isPreGenerating,
    isGeneratingRef,          \* isGeneratingRef.current
    debounceTimerRef,         \* debounceTimerRef.current: a timer id, or NoTimer
    timers,                   \* the pending debounce timeouts of the host
    nextTimerId,              \* the id window.setTimeout returns next
    genRequests,              \* presentation-rewrite requests in flight
    outlineReq,               \* the outline-generation request in flight, or
                              \* Null; priorData records sermonData as it was
                              \* when handleGenerateSermon was called
    hasApiKey,                \* getApiKey() returns a non-empty key
    \* ---- repository state (App.tsx 139-145)
    savedSermons,
    isLoadingSermons,
    loadSermonsError,
    fetchResponse,            \* Null while the GET is in flight, then its response
    isSaving,
    saveError,
    saveSuccess,
    putSave,                  \* the PUT of handleSaveSermon in flight, or Null
    putDeletes,               \* the PUTs of handleDeleteSermon in flight
    successTimers,            \* ages of the pending "saved" indicator timeouts
    nextId,                   \* the value Date.now() returns at the next save
    \* ---- AI toolbar state (App.tsx 154-157)
    toolbarState,             \* visible, originalFullText, selectedText and
                              \* the path onComplete edits
    isAiEditing,
    aiRequest,                \* the text request of handleToolbarAction in
                              \* flight, or Null
    appFault,                 \* an error was thrown while rendering and
                              \* React has unmounted the component tree
    \* ---- the section timer (SermonTimer.tsx 20-27)
    timerSermonData,          \* the sermonData prop, or Null while no timer
                              \* is mounted
    elapsedTime,              \* seconds
    isRunning,
    startTimeRef,             \* startTimeRef.current: ms, or NoStart
    animationFrameRef,        \* animationFrameRef.current: an id, or NoFrame
    frames,                   \* the animation frames requested and pending
    nextFrameId,              \* the id requestAnimationFrame returns next
    now,                      \* the clock of the host, in ms
    \* ---- one editable field (EditableField.tsx)
    fieldValue,               \* the value prop, a sequence of characters
    innerHTML,                \* element.innerHTML, a sequence of characters
    \* ---- history
    writeHistory,             \* of the PUTs in flight, which were called
                              \* before which, and which are older than a
                              \* write that has succeeded; the body of the
                              \* last called write that has succeeded
    lastOp                    \* which step was taken last, for the steps a
                              \* property singles out: "SaveFailed",
                              \* "DeleteSucceeded", "DeleteFailed",
                              \* "GenerateFailed"; "other" for every other

vars == << sermonData, presentationData, isLoading, error, isEditing,
           currentPassage, isPresentationMode, isGeneratingPresentation,
           isPreGenerating, isGeneratingRef, debounceTimerRef, timers,
           nextTimerId, genRequests, outlineReq, hasApiKey, savedSermons,
           isLoadingSermons, loadSermonsError, fetchResponse, isSaving,
           saveError, saveSuccess, putSave, putDeletes, successTimers,
           nextId, toolbarState, isAiEditing, aiRequest, appFault,
           timerSermonData, elapsedTime, isRunning, startTimeRef,
           animationFrameRef, frames, nextFrameId, now, fieldValue,
           innerHTML, writeHistory, lastOp >>

docVars == << sermonData, presentationData, isLoading, error, isEditing,
              currentPassage, isPresentationMode >>

presVars == << isGeneratingPresentation, isPreGenerating, isGeneratingRef,
               debounceTimerRef, timers, nextTimerId, genRequests >>

repoVars == << savedSermons, isLoadingSermons, loadSermonsError,
               fetchResponse, isSaving, saveError, saveSuccess, putSave,
               putDeletes, successTimers, nextId, writeHistory >>

toolbarVars == << toolbarState, isAiEditing, aiRequest, appFault >>

timerVars == << timerSermonData, elapsedTime, isRunning, startTimeRef,
                animationFrameRef, frames, nextFrameId, now >>

fieldVars == << fieldValue, innerHTML >>

appVars == << docVars, presVars, outlineReq, hasApiKey, repoVars,
              toolbarVars, fieldVars, lastOp >>

\* null for a value that is otherwise an object.
Null == [null |-> TRUE]

\* null for a value that is otherwise a string (a message).
NoMessage == "null"

\* debounceTimerRef.current when it holds no timer id (ids start at 1).
NoTimer == 0

\* startTimeRef.current when it is null; a start of 0 ms is as falsy.
NoStart == 0

\* animationFrameRef.current when it is undefined (ids start at 1).
NoFrame == 0

\* The clock of the host when the timer is mounted, in ms.
FirstTimestamp == 1000

\* The toolbar state before any selection (154-156).
HiddenToolbar ==
    [visible |-> FALSE, originalFullText |-> "", selectedText |-> "",
     path |-> <<>>]

(***************************************************************************)
(* Bounds of the model.                                                    *)
(***************************************************************************)
\* Edits per behaviour (each edit takes one timer id).
MaxEdits == 3

\* Characters of the text of the editable field.
MaxFieldLen == 9

\* Saves per behaviour (each save takes one Date.now() value).
MaxSaves == 2

\* Deletes whose PUT is in flight at the same time.
MaxPendingDeletes == 1

\* Animation frames requested per behaviour.
MaxFrameId == 10

\* The clock of the host at the end of a behaviour, in ms.
MaxClock == 2800000

(***************************************************************************)
(* Program constants, in seconds.                                          *)
(***************************************************************************)
DebounceDelay == 2

SaveSuccessDelay == 2

(***************************************************************************)
(* Documents.                                                              *)
(***************************************************************************)
Texts == {"a", "b"}

Outline(t, h) == [title |-> t, introduction |-> [hook |-> h]]

\* What the outline-generation service may answer with.
ServiceOutlines == {Outline("a", "a")}

\* The presentation rewrite of a document: the service's answer for it.
Rewrite(doc) == [rewriteOf |-> doc]

Passages == {"Gn 19"}

EditPaths == {<<"title">>, <<"introduction", "hook">>}

RECURSIVE GetIn(_, _)
GetIn(current, path) ==
    IF path = <<>> THEN current ELSE GetIn(current[path[1]], Tail(path))

\* The walk of lines 310-312 over a copy that keeps only the fields of the
\* path.
RECURSIVE SetInDropsSiblings(_, _, _)
SetInDropsSiblings(current, path, value) ==
    IF Len(path) = 1
    THEN (path[1] :> value)
    ELSE (path[1] :> SetInDropsSiblings(current[path[1]], Tail(path), value))

RECURSIVE SetIn(_, _, _)
SetIn(current, path, value) ==
    IF Len(path) = 1
    THEN (path[1] :> value) @@ current
    ELSE [current EXCEPT ![path[1]] = SetIn(current[path[1]], Tail(path), value)]

\* newData of handleSermonDataChange: a deep copy with the leaf replaced.
ApplyEdit(currentData, path, value) == SetIn(currentData, path, value)

(***************************************************************************)
(* The sermon repository (JSONBIN): responses and records.                 *)
(***************************************************************************)
\* A SavedSermon record as handleSaveSermon builds it (496-501).
NewSermon(id, passage, data, presData) ==
    [id |-> id, passage |-> passage, data |-> data, presentationData |-> presData]

\* A record already in the remote collection when the application starts.
SeedSermon ==
    NewSermon(0, "Jo 3", Outline("b", "b"), Rewrite(Outline("b", "b")))

\* What the body of a GET .../latest response may be: JSON whose "record" is
\* an array, JSON whose "record" is no array, or text that is not JSON.
FetchBodies ==
    { [kind |-> "array", record |-> <<>>],
      [kind |-> "array", record |-> <<SeedSermon>>],
      [kind |-> "no-array", record |-> <<>>],
      [kind |-> "invalid-json", record |-> <<>>] }

\* HTTP status of a response; 0 stands for a request that failed at the
\* network layer (fetch rejects).
NetworkError == 0

ResponseOk(status) == status \in 200..299

FetchStatuses == {200, 404, 500, NetworkError}

PutStatuses == {200, 404, NetworkError}

FetchFailedMsg == "Nao foi possivel buscar os sermoes salvos."

JsonFailedMsg == "Unexpected token"

NetworkFailedMsg == "Failed to fetch"

DeleteFailedMsg == "Falha ao deletar o sermao."

\* The message handleSaveSermon throws for a non-OK status (525-531).
SaveErrorMessage(status) ==
    IF status = NetworkError THEN NetworkFailedMsg
    ELSE IF status = 401 THEN "Erro de autenticacao"
    ELSE IF status = 404 THEN "Bin nao encontrado"
    ELSE "Erro HTTP"

\* e.message in the catch of fetchSavedSermons, or NoMessage when nothing is thrown
\* (170-177): a 404 is not an error, any other non-OK status is.
FetchError404IsError(status, body) ==
    IF status = NetworkError THEN NetworkFailedMsg
    ELSE IF ~ResponseOk(status) THEN FetchFailedMsg
    ELSE IF body.kind = "invalid-json" THEN JsonFailedMsg
    ELSE NoMessage

FetchErrorOnlyNetwork(status, body) ==
    IF status = NetworkError THEN NetworkFailedMsg
    ELSE IF ResponseOk(status) /\ body.kind = "invalid-json" THEN JsonFailedMsg
    ELSE NoMessage

FetchError(status, body) ==
    IF status = NetworkError THEN NetworkFailedMsg
    ELSE IF ~ResponseOk(status)
         THEN IF status = 404 THEN NoMessage ELSE FetchFailedMsg
    ELSE IF body.kind = "invalid-json" THEN JsonFailedMsg
    ELSE NoMessage

\* The list fetchSavedSermons installs (173, 179, 182).
FetchedSermons(status, body) ==
    IF ResponseOk(status) /\ body.kind = "array" THEN body.record ELSE <<>>

\* previousSermons and updatedSermons of handleSaveSermon (502-503).
SaveSnapshot(saved, newSermon) == saved

UpdatedSermonsOnlyNew(saved, newSermon) == <<newSermon>>

UpdatedSermons(saved, newSermon) == Append(saved, newSermon)

\* The list the catch of handleSaveSermon installs (538).
SaveRollbackNone(current, request) == current

SaveRollback(current, request) == request.previousSermons

\* savedSermons.filter(s => s.id !== sermonId) (547).
RECURSIVE FilterOut(_, _)
FilterOut(saved, sermonId) ==
    IF saved = <<>> THEN <<>>
    ELSE IF Head(saved).id = sermonId THEN FilterOut(Tail(saved), sermonId)
    ELSE <<Head(saved)>> \o FilterOut(Tail(saved), sermonId)

\* The list handleDeleteSermon installs when the write fails (560, 566).
DeleteRollbackNone(current, request) == current

DeleteRollback(current, request) == request.previousSermons

RemoveAt(seq, i) == SubSeq(seq, 1, i - 1) \o SubSeq(seq, i + 1, Len(seq))

\* The saved-sermon list is rendered (632): load and delete can be clicked.
ListVisible ==
    /\ ~isLoadingSermons
    /\ loadSermonsError = NoMessage
    /\ ~isPresentationMode

\* The block of the outline and its controls is rendered (687) and not
\* hidden by the presentation mode.
ControlsVisible ==
    /\ sermonData # Null
    /\ ~isLoading
    /\ ~isPresentationMode

(***************************************************************************)
(* The history of the writes.  olderDeletes is the number of deletes in    *)
(* flight that were called before the save in flight; a write is           *)
(* superseded when a write called after it has succeeded, or when the      *)
(* list was fetched after it was called; lastGood holds the body of the    *)
(* write called last among those that have succeeded, if there is one.     *)
(***************************************************************************)
NoWrites ==
    [olderDeletes |-> 0, saveSuperseded |-> FALSE,
     deleteSuperseded |-> <<>>, lastGood |-> {}]

\* The list was fetched: the writes in flight were called before.
HistoryAfterFetch(h, saving) ==
    [olderDeletes |-> h.olderDeletes,
     saveSuperseded |-> saving,
     deleteSuperseded |-> [i \in DOMAIN h.deleteSuperseded |-> TRUE],
     lastGood |-> {}]

\* A save was called while deletes are in flight.
HistoryAfterSaveCall(h) ==
    [h EXCEPT !.olderDeletes = Len(h.deleteSuperseded),
              !.saveSuperseded = FALSE]

\* The save was answered.
HistoryAfterSaveResponse(h, ok, body) ==
    IF ok /\ ~h.saveSuperseded
    THEN [olderDeletes |-> 0,
          saveSuperseded |-> FALSE,
          deleteSuperseded |->
              [i \in DOMAIN h.deleteSuperseded |->
                  h.deleteSuperseded[i] \/ i <= h.olderDeletes],
          lastGood |-> {body}]
    ELSE [h EXCEPT !.olderDeletes = 0, !.saveSuperseded = FALSE]

\* A delete was called.
HistoryAfterDeleteCall(h) ==
    [h EXCEPT !.deleteSuperseded = Append(@, FALSE)]

\* The delete at i was answered; saving tells whether a save is in flight.
HistoryAfterDeleteResponse(h, i, ok, body, saving) ==
    LET good == ok /\ ~h.deleteSuperseded[i]
        marked == [j \in DOMAIN h.deleteSuperseded |->
                      h.deleteSuperseded[j] \/ (good /\ j < i)]
    IN  [olderDeletes |->
             IF i <= h.olderDeletes THEN h.olderDeletes - 1
             ELSE h.olderDeletes,
         saveSuperseded |->
             h.saveSuperseded \/ (good /\ saving /\ i > h.olderDeletes),
         deleteSuperseded |->
             SubSeq(marked, 1, i - 1) \o SubSeq(marked, i + 1, Len(marked)),
         lastGood |-> IF good THEN {body} ELSE h.lastGood]

(***************************************************************************)
(* The markup codec of components/EditableField.tsx.  A text is a sequence *)
(* of one-character strings.                                               *)
(***************************************************************************)
\* The literals of the codec.
Delimiter == << "*", "*" >>

StrongOpen == << "<", "s", "t", "r", "o", "n", "g", ">" >>

StrongClose == << "<", "/", "s", "t", "r", "o", "n", "g", ">" >>

EntityLt == << "&", "l", "t", ";" >>

EntityGt == << "&", "g", "t", ";" >>

EntityNbsp == << "&", "n", "b", "s", "p", ";" >>

\* The characters "." of a regular expression does not match, and those \s
\* matches.
LineTerminators == {"\n", "\r"}

WhiteSpace == {" ", "\t", "\n", "\r"}

\* text.slice(from) with from counted from 0.
Drop(text, from) == SubSeq(text, from + 1, Len(text))

\* text.startsWith(prefix) and text.endsWith(suffix).
StartsWith(text, prefix) ==
    IF Len(text) < Len(prefix) THEN FALSE
    ELSE SubSeq(text, 1, Len(prefix)) = prefix

EndsWith(text, suffix) ==
    IF Len(text) < Len(suffix) THEN FALSE
    ELSE SubSeq(text, Len(text) - Len(suffix) + 1, Len(text)) = suffix

\* text.replace(/pattern/g, replacement) for a literal pattern.
RECURSIVE ReplaceAll(_, _, _)
ReplaceAll(text, pattern, replacement) ==
    IF Len(text) < Len(pattern) THEN text
    ELSE IF StartsWith(text, pattern)
         THEN replacement
                  \o ReplaceAll(Drop(text, Len(pattern)), pattern, replacement)
         ELSE << Head(text) >> \o ReplaceAll(Tail(text), pattern, replacement)

\* The length of the match of /\*\*.*?\*\*/ at the head of text, 0 when
\* there is none: the opening delimiter, the fewest characters other than
\* line terminators, the closing delimiter.
MatchSpan(text) ==
    IF ~StartsWith(text, Delimiter) THEN 0
    ELSE LET closers ==
                 {j \in 3..(Len(text) - 1) :
                     /\ text[j] = "*" /\ text[j + 1] = "*"
                     /\ \A k \in 3..(j - 1) : text[k] \notin LineTerminators}
         IN  IF closers = {} THEN 0
             ELSE (CHOOSE j \in closers : \A k \in closers : j <= k) + 1

\* The callback of map (20-24): part.slice(2, -2) is empty for a part of
\* two or three characters.
MapPart(part) ==
    IF StartsWith(part, Delimiter) /\ EndsWith(part, Delimiter)
    THEN StrongOpen
             \o (IF Len(part) >= 4 THEN SubSeq(part, 3, Len(part) - 2)
                 ELSE <<>>)
             \o StrongClose
    ELSE part

\* split(/(\*\*.*?\*\*)/g).map(...).join('') (19-25): pending is the part
\* before the next match, read so far.
RECURSIVE SplitMapJoin(_, _)
SplitMapJoin(pending, text) ==
    IF text = <<>> THEN MapPart(pending)
    ELSE IF MatchSpan(text) > 0
         THEN MapPart(pending)
                  \o MapPart(SubSeq(text, 1, MatchSpan(text)))
                  \o SplitMapJoin(<<>>, Drop(text, MatchSpan(text)))
         ELSE SplitMapJoin(Append(pending, Head(text)), Tail(text))

\* parseToHtml (14-26).
parseToHtml(text) ==
    SplitMapJoin(<<>>,
        ReplaceAll(ReplaceAll(text, << "<" >>, EntityLt), << ">" >>, EntityGt))

\* The length of the match of /<br\s*\/?>/ at the head of text, or 0.
RECURSIVE SkipWhiteSpace(_, _)
SkipWhiteSpace(text, i) ==
    IF i > Len(text) THEN i
    ELSE IF text[i] \in WhiteSpace THEN SkipWhiteSpace(text, i + 1)
    ELSE i

MatchBr(text) ==
    IF ~StartsWith(text, << "<", "b", "r" >>) THEN 0
    ELSE LET i == SkipWhiteSpace(text, 4)
             j == IF i <= Len(text) THEN (IF text[i] = "/" THEN i + 1 ELSE i)
                  ELSE i
         IN  IF j <= Len(text) THEN (IF text[j] = ">" THEN j ELSE 0) ELSE 0

\* The length of the match of /<[^>]*>/ at the head of text, or 0.
MatchTag(text) ==
    IF ~StartsWith(text, << "<" >>) THEN 0
    ELSE LET closers == {j \in 2..Len(text) : text[j] = ">"}
         IN  IF closers = {} THEN 0
             ELSE CHOOSE j \in closers : \A k \in closers : j <= k

\* replace(/<br\s*\/?>/gi, '\n') and replace(/<[^>]*>/g, '').
RECURSIVE ReplaceBr(_)
ReplaceBr(text) ==
    IF text = <<>> THEN <<>>
    ELSE IF MatchBr(text) > 0
         THEN << "\n" >> \o ReplaceBr(Drop(text, MatchBr(text)))
         ELSE << Head(text) >> \o ReplaceBr(Tail(text))

RECURSIVE StripTags(_)
StripTags(text) ==
    IF text = <<>> THEN <<>>
    ELSE IF MatchTag(text) > 0
         THEN StripTags(Drop(text, MatchTag(text)))
         ELSE << Head(text) >> \o StripTags(Tail(text))

\* parseToText (28-37); the texts hold no upper-case letter.
parseToText(html) ==
    StripTags(
      ReplaceBr(
        ReplaceAll(
          ReplaceAll(
            ReplaceAll(
              ReplaceAll(
                ReplaceAll(html, StrongOpen, Delimiter),
                StrongClose, Delimiter),
              EntityNbsp, << " " >>),
            EntityLt, << "<" >>),
          EntityGt, << ">" >>)))


(***************************************************************************)
(* Initial state: the component is mounted and the effect of line 188 has  *)
(* called fetchSavedSermons, whose GET is in flight.                       *)
(***************************************************************************)
InitApp ==
    /\ sermonData = Null
    /\ presentationData = Null
    /\ isLoading = FALSE
    /\ error = NoMessage
    /\ isEditing = FALSE
    /\ currentPassage = ""
    /\ isPresentationMode = FALSE
    /\ isGeneratingPresentation = FALSE
    /\ isPreGenerating = FALSE
    /\ isGeneratingRef = FALSE
    /\ debounceTimerRef = NoTimer
    /\ timers = {}
    /\ nextTimerId = 1
    /\ genRequests = <<>>
    /\ outlineReq = Null
    /\ hasApiKey \in BOOLEAN
    /\ savedSermons = <<>>
    /\ isLoadingSermons = TRUE
    /\ loadSermonsError = NoMessage
    /\ fetchResponse = Null
    /\ isSaving = FALSE
    /\ saveError = NoMessage
    /\ saveSuccess = FALSE
    /\ putSave = Null
    /\ putDeletes = <<>>
    /\ successTimers = {}
    /\ nextId = 1
    /\ writeHistory = NoWrites
    /\ toolbarState = HiddenToolbar
    /\ isAiEditing = FALSE
    /\ aiRequest = Null
    /\ appFault = FALSE
    /\ lastOp = "other"

\* The state of a SermonTimer when it is mounted with the prop data at the
\* time timestamp (SermonTimer.tsx 21-27).
InitSermonTimer(data, timestamp) ==
    /\ timerSermonData = data
    /\ elapsedTime = 0
    /\ isRunning = FALSE
    /\ startTimeRef = NoStart
    /\ animationFrameRef = NoFrame
    /\ frames = {}
    /\ nextFrameId = 1
    /\ now = timestamp

\* The state of an EditableField when it is mounted with the prop value:
\* the element is rendered with dangerouslySetInnerHTML (EditableField.tsx
\* 74, 107).
InitEditableField(value) ==
    /\ fieldValue = value
    /\ innerHTML = parseToHtml(value)

\* The application outside the presentation mode: no timer is mounted.
Init ==
    /\ InitApp
    /\ InitSermonTimer(Null, FirstTimestamp)
    /\ InitEditableField(<<>>)

(***************************************************************************)
(* fetchSavedSermons, from the arrival of the response (170-185).          *)
(***************************************************************************)
FetchSavedSermons(status, body) ==
    /\ fetchResponse = Null
    /\ fetchResponse' = [status |-> status]
    /\ savedSermons' = FetchedSermons(status, body)
    /\ loadSermonsError' =
           IF FetchError(status, body) # NoMessage THEN FetchError(status, body)
           ELSE loadSermonsError
    /\ isLoadingSermons' = FALSE
    /\ writeHistory' = HistoryAfterFetch(writeHistory, putSave # Null)
    /\ lastOp' = "other"
    /\ UNCHANGED << docVars, presVars, outlineReq, hasApiKey, isSaving,
                    saveError, saveSuccess, putSave, putDeletes,
                    successTimers, nextId >>
    /\ UNCHANGED << toolbarVars, timerVars, fieldVars >>

(***************************************************************************)
(* handleSaveSermon up to its await (493-519).                             *)
(***************************************************************************)
HandleSaveSermon ==
    /\ ControlsVisible
    /\ ~isSaving /\ ~saveSuccess            \* the button is enabled (693)
    /\ sermonData # Null /\ currentPassage # ""
    /\ nextId <= MaxSaves
    /\ LET newSermon == NewSermon(nextId, currentPassage, sermonData,
                                  presentationData)
           previousSermons == SaveSnapshot(savedSermons, newSermon)
           updatedSermons == UpdatedSermons(savedSermons, newSermon)
       IN  /\ savedSermons' = updatedSermons
           /\ putSave' = [previousSermons |-> previousSermons,
                          body |-> updatedSermons]
    /\ isSaving' = TRUE
    /\ saveError' = NoMessage
    /\ saveSuccess' = FALSE
    /\ nextId' = nextId + 1
    /\ writeHistory' = HistoryAfterSaveCall(writeHistory)
    /\ lastOp' = "other"
    /\ UNCHANGED << docVars, presVars, outlineReq, hasApiKey,
                    isLoadingSermons, loadSermonsError, fetchResponse,
                    putDeletes, successTimers >>
    /\ UNCHANGED << toolbarVars, timerVars, fieldVars >>

\* isSaving reset only after a successful save.
SavingAfterFailedResponse(status) == ~ResponseOk(status)

\* isSaving after the finally of lines 539-541.
SavingAfterResponse(status) == FALSE

(***************************************************************************)
(* handleSaveSermon from the arrival of the PUT response (521-541).        *)
(***************************************************************************)
SaveResponse(status) ==
    /\ putSave # Null
    /\ IF ResponseOk(status)
       THEN /\ saveSuccess' = TRUE
            /\ successTimers' = successTimers \cup {0}
            /\ UNCHANGED << saveError, savedSermons >>
            /\ lastOp' = "other"
       ELSE /\ saveError' = SaveErrorMessage(status)
            /\ savedSermons' = SaveRollback(savedSermons, putSave)
            /\ UNCHANGED << saveSuccess, successTimers >>
            /\ lastOp' = "SaveFailed"
    /\ isSaving' = SavingAfterResponse(status)
    /\ putSave' = Null
    /\ writeHistory' = HistoryAfterSaveResponse(writeHistory,
                                                ResponseOk(status),
                                                putSave.body)
    /\ UNCHANGED << docVars, presVars, outlineReq, hasApiKey,
                    isLoadingSermons, loadSermonsError, fetchResponse,
                    putDeletes, nextId >>
    /\ UNCHANGED << toolbarVars, timerVars, fieldVars >>

\* The timeout of line 535.
SaveSuccessTimeout ==
    /\ SaveSuccessDelay \in successTimers
    /\ successTimers' = successTimers \ {SaveSuccessDelay}
    /\ saveSuccess' = FALSE
    /\ lastOp' = "other"
    /\ UNCHANGED << docVars, presVars, outlineReq, hasApiKey, savedSermons,
                    isLoadingSermons, loadSermonsError, fetchResponse,
                    isSaving, saveError, putSave, putDeletes, nextId,
                    writeHistory >>
    /\ UNCHANGED << toolbarVars, timerVars, fieldVars >>

(***************************************************************************)
(* handleDeleteSermon up to its await (545-558).                           *)
(***************************************************************************)
HandleDeleteSermon(sermonId) ==
    /\ ListVisible
    /\ \E i \in 1..Len(savedSermons) : savedSermons[i].id = sermonId
    /\ Len(putDeletes) < MaxPendingDeletes
    /\ LET previousSermons == savedSermons
           updatedSermons == FilterOut(savedSermons, sermonId)
       IN  /\ savedSermons' = updatedSermons
           /\ putDeletes' = Append(putDeletes,
                                   [previousSermons |-> previousSermons,
                                    body |-> updatedSermons,
                                    sermonId |-> sermonId])
    /\ writeHistory' = HistoryAfterDeleteCall(writeHistory)
    /\ lastOp' = "other"
    /\ UNCHANGED << docVars, presVars, outlineReq, hasApiKey,
                    isLoadingSermons, loadSermonsError, fetchResponse,
                    isSaving, saveError, saveSuccess, putSave,
                    successTimers, nextId >>
    /\ UNCHANGED << toolbarVars, timerVars, fieldVars >>

(***************************************************************************)
(* handleDeleteSermon from the arrival of the PUT response (559-567).      *)
(***************************************************************************)
DeleteResponse(i, status) ==
    /\ i \in 1..Len(putDeletes)
    /\ IF ResponseOk(status)
       THEN /\ UNCHANGED << savedSermons, loadSermonsError >>
            /\ lastOp' = "DeleteSucceeded"
       ELSE /\ savedSermons' = DeleteRollback(savedSermons, putDeletes[i])
            /\ loadSermonsError' =
                   IF status = NetworkError THEN NetworkFailedMsg
                   ELSE DeleteFailedMsg
            /\ lastOp' = "DeleteFailed"
    /\ putDeletes' = RemoveAt(putDeletes, i)
    /\ writeHistory' = HistoryAfterDeleteResponse(writeHistory, i,
                                                  ResponseOk(status),
                                                  putDeletes[i].body,
                                                  putSave # Null)
    /\ UNCHANGED << docVars, presVars, outlineReq, hasApiKey,
                    isLoadingSermons, fetchResponse, isSaving, saveError,
                    saveSuccess, putSave, successTimers, nextId >>
    /\ UNCHANGED << toolbarVars, timerVars, fieldVars >>

(***************************************************************************)
(* handleLoadSermon (570-575).                                             *)
(***************************************************************************)
HandleLoadSermon(i) ==
    /\ ListVisible
    /\ i \in 1..Len(savedSermons)
    /\ sermonData' = savedSermons[i].data
    /\ currentPassage' = savedSermons[i].passage
    /\ presentationData' = savedSermons[i].presentationData
    /\ lastOp' = "other"
    /\ UNCHANGED << isLoading, error, isEditing, isPresentationMode,
                    presVars, outlineReq, hasApiKey, repoVars >>
    /\ UNCHANGED << toolbarVars, timerVars, fieldVars >>

(***************************************************************************)
(* Outline generation: handleGenerateSermon (411-465).                     *)
(***************************************************************************)
ApiKeyMsg == "Chave da API nao configurada."

ServiceFailedMsg == "Nao foi possivel gerar o esboco."

ParseFailedMsg == "A resposta da IA nao estava no formato JSON esperado."

\* How a generateContent call may end: a parseable answer, an answer
\* parseJsonResponse rejects, or a rejected call.
ServiceResults == {"ok", "unparseable", "rejected"}

ServiceError(result) ==
    IF result = "unparseable" THEN ParseFailedMsg ELSE ServiceFailedMsg

\* sermonData once a failed handleGenerateSermon has run its catch (460).
DataKeptAfterFailedGeneration(current) == current

DataAfterFailedGeneration(current) == Null

\* From the entry to the await of generateContent; without an API key the
\* throw of line 422 is caught in the same run (412-423, 456-463).
HandleGenerateSermon(passage) ==
    /\ ~isLoading                          \* the form's guard (part_003 121)
    /\ ~isPresentationMode
    /\ presentationData' = Null
    /\ isEditing' = FALSE
    /\ currentPassage' = passage
    /\ IF hasApiKey
       THEN /\ isLoading' = TRUE
            /\ error' = NoMessage
            /\ sermonData' = Null
            /\ outlineReq' = [stage |-> "request", sermonJson |-> Null,
                              priorData |-> sermonData]
            /\ lastOp' = "other"
       ELSE /\ isLoading' = FALSE
            /\ error' = ApiKeyMsg
            /\ sermonData' = DataAfterFailedGeneration(sermonData)
            /\ outlineReq' = Null
            /\ lastOp' = "GenerateFailed"
    /\ UNCHANGED << isPresentationMode, presVars, hasApiKey, repoVars >>
    /\ UNCHANGED << toolbarVars, timerVars, fieldVars >>

\* From the answer of generateContent to the 0.5 s pause (449-452), or
\* through the catch (456-463).
OutlineResponse(result, sermonJson) ==
    /\ outlineReq # Null /\ outlineReq.stage = "request"
    /\ IF result = "ok"
       THEN /\ outlineReq' = [outlineReq EXCEPT !.stage = "pause",
                                              !.sermonJson = sermonJson]
            /\ UNCHANGED << sermonData, error, isLoading >>
            /\ lastOp' = "other"
       ELSE /\ outlineReq' = Null
            /\ error' = ServiceError(result)
            /\ sermonData' = DataAfterFailedGeneration(sermonData)
            /\ isLoading' = FALSE
            /\ lastOp' = "GenerateFailed"
    /\ UNCHANGED << presentationData, isEditing, currentPassage,
                    isPresentationMode, presVars, hasApiKey, repoVars >>
    /\ UNCHANGED << toolbarVars, timerVars, fieldVars >>

\* After the pause (453-454, 462-463).
OutlineInstall ==
    /\ outlineReq # Null /\ outlineReq.stage = "pause"
    /\ sermonData' = outlineReq.sermonJson
    /\ saveSuccess' = FALSE
    /\ isLoading' = FALSE
    /\ outlineReq' = Null
    /\ lastOp' = "other"
    /\ UNCHANGED << presentationData, error, isEditing, currentPassage,
                    isPresentationMode, presVars, hasApiKey, savedSermons,
                    isLoadingSermons, loadSermonsError, fetchResponse,
                    isSaving, saveError, putSave, putDeletes, successTimers,
                    nextId, writeHistory >>
    /\ UNCHANGED << toolbarVars, timerVars, fieldVars >>

\* The edit-mode switch (733).
ToggleEditMode ==
    /\ ControlsVisible
    /\ isEditing' = ~isEditing
    /\ lastOp' = "other"
    /\ UNCHANGED << sermonData, presentationData, isLoading, error,
                    currentPassage, isPresentationMode, presVars, outlineReq,
                    hasApiKey, repoVars >>
    /\ UNCHANGED << toolbarVars, timerVars, fieldVars >>

(***************************************************************************)
(* Presentation data: handleSermonDataChange (302-328), the debounce       *)
(* callback (317-324), generatePresentationData (256-300),                 *)
(* handleEnterPresentationMode (467-490).                                  *)
(***************************************************************************)
\* clearTimeout(id) on the host's pending timeouts.
ClearTimeoutForgotten(pending, id) == pending

ClearTimeout(pending, id) == {t \in pending : t.id # id}

\* The value handleSermonDataChange gives presentationData (315).
PresentationKeptAfterEdit(current) == current

PresentationAfterEdit(current) == Null

\* isGeneratingPresentation || isPreGenerating (160, 578).
IsBusyGenerating == isGeneratingPresentation \/ isPreGenerating

\* Whether the debounce callback returns at once (318).
CallbackSkips(refCurrent) == refCurrent

\* What generatePresentationData resolves to (293, 298).
PresentationResult(result, source) ==
    IF result = "ok" THEN Rewrite(source) ELSE Null

\* An edit committed by an editable field (EditableField handleBlur 83-91).
HandleSermonDataChange(path, value) ==
    /\ ControlsVisible
    /\ isEditing
    /\ value # GetIn(sermonData, path)
    /\ nextTimerId <= MaxEdits
    /\ LET newData == ApplyEdit(sermonData, path, value)
       IN  /\ sermonData' = newData
           /\ timers' = ClearTimeout(timers, debounceTimerRef)
                          \cup {[id |-> nextTimerId, newData |-> newData,
                                 age |-> 0]}
    /\ presentationData' = PresentationAfterEdit(presentationData)
    /\ debounceTimerRef' = nextTimerId
    /\ nextTimerId' = nextTimerId + 1
    /\ lastOp' = "other"
    /\ UNCHANGED << isLoading, error, isEditing, currentPassage,
                    isPresentationMode, isGeneratingPresentation,
                    isPreGenerating, isGeneratingRef, genRequests,
                    outlineReq, hasApiKey, repoVars >>
    /\ UNCHANGED << toolbarVars, timerVars, fieldVars >>

\* The timeout callback of an edit, run when its 2 s have passed (317-324).
\* The state update of line 320 reaches isGeneratingRef only with the
\* effect of a later render (SyncGeneratingRef).
DebounceCallback(t) ==
    /\ t \in timers
    /\ t.age = DebounceDelay
    /\ timers' = timers \ {t}
    /\ IF CallbackSkips(isGeneratingRef)
       THEN /\ UNCHANGED << isPreGenerating, genRequests, error,
                            presentationData >>
            /\ lastOp' = "other"
       ELSE IF hasApiKey
       THEN /\ isPreGenerating' = TRUE
            /\ error' = NoMessage
            /\ genRequests' = Append(genRequests,
                                     [kind |-> "pre", source |-> t.newData])
            /\ UNCHANGED presentationData
            /\ lastOp' = "other"
       ELSE /\ isPreGenerating' = FALSE
            /\ error' = ApiKeyMsg
            /\ presentationData' = Null
            /\ UNCHANGED genRequests
            /\ lastOp' = "other"
    /\ UNCHANGED << sermonData, isLoading, isEditing, currentPassage,
                    isPresentationMode, isGeneratingPresentation,
                    isGeneratingRef, debounceTimerRef, nextTimerId,
                    outlineReq, hasApiKey, repoVars >>
    /\ UNCHANGED << toolbarVars, timerVars, fieldVars >>

\* The button "Apresentacao" (718): a click is handled, rendered and its
\* effects run before any other task, so isGeneratingRef follows at once.
HandleEnterPresentationMode ==
    /\ ControlsVisible
    /\ sermonData # Null /\ ~isGeneratingRef
    /\ timers' = ClearTimeout(timers, debounceTimerRef)
    /\ debounceTimerRef' = NoTimer
    /\ IF presentationData # Null
       THEN /\ isPresentationMode' = TRUE
            /\ UNCHANGED << isGeneratingPresentation, isGeneratingRef,
                            genRequests, error >>
            /\ lastOp' = "other"
       ELSE IF hasApiKey
       THEN /\ isGeneratingPresentation' = TRUE
            /\ isGeneratingRef' = TRUE
            /\ error' = NoMessage
            /\ genRequests' = Append(genRequests,
                                     [kind |-> "demand",
                                      source |-> sermonData])
            /\ UNCHANGED isPresentationMode
            /\ lastOp' = "other"
       ELSE /\ error' = ApiKeyMsg
            /\ isPresentationMode' = TRUE
            /\ UNCHANGED << isGeneratingPresentation, isGeneratingRef,
                            genRequests >>
            /\ lastOp' = "other"
    /\ UNCHANGED << sermonData, presentationData, isLoading, isEditing,
                    currentPassage, isPreGenerating, nextTimerId,
                    outlineReq, hasApiKey, repoVars >>
    /\ UNCHANGED << toolbarVars, timerVars, fieldVars >>

\* The resumption after "await generatePresentationData" (322-323, 485-489).
GenerationResponse(i, result) ==
    /\ i \in 1..Len(genRequests)
    /\ LET request == genRequests[i]
           presData == PresentationResult(result, request.source)
       IN  /\ error' = IF result = "ok" THEN error ELSE ServiceError(result)
           /\ IF request.kind = "pre"
              THEN /\ presentationData' = presData
                   /\ isPreGenerating' = FALSE
                   /\ UNCHANGED << isPresentationMode,
                                   isGeneratingPresentation >>
                   /\ lastOp' = "other"
              ELSE /\ presentationData' =
                          IF presData # Null THEN presData
                          ELSE presentationData
                   /\ isPresentationMode' = TRUE
                   /\ isGeneratingPresentation' = FALSE
                   /\ UNCHANGED isPreGenerating
                   /\ lastOp' = "other"
    /\ genRequests' = RemoveAt(genRequests, i)
    /\ UNCHANGED << sermonData, isLoading, isEditing, currentPassage,
                    isGeneratingRef, debounceTimerRef, timers, nextTimerId,
                    outlineReq, hasApiKey, repoVars >>
    /\ UNCHANGED << toolbarVars, timerVars, fieldVars >>

\* The effect of lines 159-161, run after the render that follows a change
\* of isGeneratingPresentation or isPreGenerating.
SyncGeneratingRef ==
    /\ isGeneratingRef # IsBusyGenerating
    /\ isGeneratingRef' = IsBusyGenerating
    /\ lastOp' = "other"
    /\ UNCHANGED << docVars, isGeneratingPresentation, isPreGenerating,
                    debounceTimerRef, timers, nextTimerId, genRequests,
                    outlineReq, hasApiKey, repoVars >>
    /\ UNCHANGED << toolbarVars, timerVars, fieldVars >>

\* Escape, or the timer's exit button (226-231, 585-587).
ExitPresentationMode ==
    /\ isPresentationMode
    /\ isPresentationMode' = FALSE
    /\ lastOp' = "other"
    /\ UNCHANGED << sermonData, presentationData, isLoading, error,
                    isEditing, currentPassage, presVars, outlineReq,
                    hasApiKey, repoVars >>
    /\ UNCHANGED << toolbarVars, timerVars, fieldVars >>

(***************************************************************************)
(* One second passes.  A due timeout and a pending render run first.       *)
(***************************************************************************)
Tick ==
    /\ timers # {} \/ successTimers # {}
    /\ \A t \in timers : t.age < DebounceDelay
    /\ \A a \in successTimers : a < SaveSuccessDelay
    /\ isGeneratingRef = IsBusyGenerating
    /\ timers' = {[t EXCEPT !.age = @ + 1] : t \in timers}
    /\ successTimers' = {a + 1 : a \in successTimers}
    /\ lastOp' = "other"
    /\ UNCHANGED << docVars, isGeneratingPresentation, isPreGenerating,
                    isGeneratingRef, debounceTimerRef, nextTimerId,
                    genRequests, outlineReq, hasApiKey, savedSermons,
                    isLoadingSermons, loadSermonsError, fetchResponse,
                    isSaving, saveError, saveSuccess, putSave, putDeletes,
                    nextId, writeHistory >>
    /\ UNCHANGED << toolbarVars, timerVars, fieldVars >>

(***************************************************************************)
(* Text selection and the AI toolbar: handleTextSelect (330-354) and       *)
(* handleToolbarAction (356-408).  A selection covers the whole text of    *)
(* its field.  onComplete is the onChange of the field the text was        *)
(* selected in: a call of handleSermonDataChange with that field's path.   *)
(***************************************************************************)
\* One development point; an array is, as in JavaScript, an object whose
\* keys are "0", "1", ...
Point(n, argument) == [point |-> n, argument |-> argument]

\* An outline with two development points.
PointsOutline ==
    [development |-> ("0" :> Point(1, "a") @@ "1" :> Point(2, "a"))]
        @@ Outline("a", "a")

\* A saved sermon whose outline has a title only.
BareSermon == NewSermon(-1, "Sl 23", [title |-> "b"], Null)

\* The saved collection and the service answers of SpecEdit.
EditFetchBody ==
    [kind |-> "array",
     record |-> <<NewSermon(0, "Jo 3", PointsOutline, Null), BareSermon>>]

\* The texts typed and the texts the service answers with in SpecEdit.
EditTexts == {"b"}

\* The paths the editable fields are rendered with (744-846, SermonPoint).
AllEditPaths ==
    EditPaths \cup {<<"development", "1", "argument">>}

\* The value at path exists in the document.
RECURSIVE HasLeaf(_, _)
HasLeaf(current, path) ==
    IF path[1] \notin DOMAIN current THEN FALSE
    ELSE IF Len(path) = 1 THEN TRUE
    ELSE HasLeaf(current[path[1]], Tail(path))

\* The field of path is on screen (data.title &&, data.introduction &&,
\* data.development.map).
FieldRendered(data, path) ==
    IF data = Null THEN FALSE ELSE HasLeaf(data, path)

\* The walk and the assignment of lines 309-313 run without a TypeError:
\* the copy is an object and so is every "current[path[i]]" of the walk.
RECURSIVE PathResolves(_, _)
PathResolves(current, path) ==
    IF current = Null THEN FALSE
    ELSE IF Len(path) = 1 THEN TRUE
    ELSE IF path[1] \notin DOMAIN current THEN FALSE
    ELSE PathResolves(current[path[1]], Tail(path))

AiActions == {"highlight", "shorten", "lengthen", "rephrase"}

AiFailedMsg == "Nao foi possivel processar a solicitacao."

\* originalFullText.replace(selectedText, replacement), for a selection
\* that is the whole text or does not occur in it.
ReplaceFirst(originalFullText, selectedText, replacement) ==
    IF originalFullText = selectedText THEN replacement
    ELSE originalFullText

Highlight(selectedText) == "**" \o selectedText \o "**"

\* handleSermonDataChange as onComplete calls it (302-328).  When the walk
\* of the path throws, the timeout of line 304 is already cleared and the
\* error leaves the state updater while React renders: no handler catches
\* it and the component tree is unmounted.
SermonDataChange(path, value) ==
    IF PathResolves(sermonData, path)
    THEN LET newData == ApplyEdit(sermonData, path, value)
         IN  /\ sermonData' = newData
             /\ presentationData' = PresentationAfterEdit(presentationData)
             /\ timers' = ClearTimeout(timers, debounceTimerRef)
                            \cup {[id |-> nextTimerId, newData |-> newData,
                                   age |-> 0]}
             /\ debounceTimerRef' = nextTimerId
             /\ nextTimerId' = nextTimerId + 1
             /\ appFault' = FALSE
    ELSE /\ timers' = ClearTimeout(timers, debounceTimerRef)
         /\ appFault' = TRUE
         /\ UNCHANGED << sermonData, presentationData, debounceTimerRef,
                         nextTimerId >>

\* Text is selected in a rendered field in edit mode (EditableField
\* handleMouseUp 93-101, handleTextSelect).
HandleTextSelect(path) ==
    /\ ~appFault
    /\ ControlsVisible
    /\ isEditing
    /\ FieldRendered(sermonData, path)
    /\ toolbarState' =
           [visible |-> TRUE,
            originalFullText |-> GetIn(sermonData, path),
            selectedText |-> GetIn(sermonData, path),
            path |-> path]
    /\ lastOp' = "other"
    /\ UNCHANGED << docVars, presVars, outlineReq, hasApiKey, repoVars,
                    isAiEditing, aiRequest, appFault >>
    /\ UNCHANGED << timerVars, fieldVars >>

\* A button of the toolbar (EditingToolbar 21-24), up to the request.
HandleToolbarAction(action) ==
    /\ ~appFault
    /\ toolbarState.visible /\ ~isAiEditing
    /\ toolbarState.selectedText # ""
    /\ nextTimerId <= MaxEdits
    /\ toolbarState' = [toolbarState EXCEPT !.visible = FALSE]
    /\ IF action = "highlight"
       THEN /\ SermonDataChange(
                   toolbarState.path,
                   ReplaceFirst(toolbarState.originalFullText,
                                toolbarState.selectedText,
                                Highlight(toolbarState.selectedText)))
            /\ UNCHANGED << isAiEditing, error, aiRequest >>
       ELSE /\ IF hasApiKey
               THEN /\ isAiEditing' = TRUE
                    /\ error' = NoMessage
                    /\ aiRequest' =
                           [path |-> toolbarState.path,
                            originalFullText |-> toolbarState.originalFullText,
                            selectedText |-> toolbarState.selectedText]
               ELSE /\ isAiEditing' = FALSE
                    /\ error' = ApiKeyMsg
                    /\ UNCHANGED aiRequest
            /\ UNCHANGED << sermonData, presentationData, timers,
                            debounceTimerRef, nextTimerId, appFault >>
    /\ lastOp' = "other"
    /\ UNCHANGED << isLoading, isEditing, currentPassage,
                    isPresentationMode, isGeneratingPresentation,
                    isPreGenerating, isGeneratingRef, genRequests,
                    outlineReq, hasApiKey, repoVars >>
    /\ UNCHANGED << timerVars, fieldVars >>

\* The resumption after "await ai.models.generateContent" (394-407).
ToolbarResponse(result, newText) ==
    /\ ~appFault
    /\ aiRequest # Null
    /\ IF result = "ok"
       THEN /\ SermonDataChange(
                   aiRequest.path,
                   ReplaceFirst(aiRequest.originalFullText,
                                aiRequest.selectedText, newText))
            /\ UNCHANGED error
       ELSE /\ error' = AiFailedMsg
            /\ UNCHANGED << sermonData, presentationData, timers,
                            debounceTimerRef, nextTimerId, appFault >>
    /\ isAiEditing' = FALSE
    /\ aiRequest' = Null
    /\ lastOp' = "other"
    /\ UNCHANGED << isLoading, isEditing, currentPassage,
                    isPresentationMode, isGeneratingPresentation,
                    isPreGenerating, isGeneratingRef, genRequests,
                    outlineReq, hasApiKey, repoVars, toolbarState >>
    /\ UNCHANGED << timerVars, fieldVars >>

(***************************************************************************)
(* The section timer (components/SermonTimer.tsx).  elapsedTime is in      *)
(* seconds, the timestamps of the animation frames are in ms.  A state     *)
(* update re-renders the component and runs the cleanup and the body of    *)
(* the effect of lines 71-104 before the next event, when isRunning or     *)
(* elapsedTime has changed.                                                *)
(***************************************************************************)
TOTAL_DURATION == 40 * 60

\* The outlines the timer is mounted with.
Section(title) == [title |-> title]

Points3 ==
    "0" :> Point(1, "a") @@ "1" :> Point(2, "a") @@ "2" :> Point(3, "a")

Points2 == "0" :> Point(1, "a") @@ "1" :> Point(2, "a")

Points4 == Points3 @@ "3" :> Point(4, "a")

Points5 == Points4 @@ "4" :> Point(5, "a")

TimerOutlines ==
    { [title |-> "a"],
      [introduction |-> Section("I"), development |-> Points3,
       conclusion |-> Section("C")],
      [development |-> ("0" :> Point(3, "a") @@ "1" :> Point(7, "a")),
       conclusion |-> Section("")],
      [introduction |-> Section(""), development |-> Points5,
       conclusion |-> Section("C")],
      [introduction |-> Section("I"), development |-> Points2,
       conclusion |-> Section("C")],
      [introduction |-> Section("I"), development |-> Points4,
       conclusion |-> Section("C")] }

\* Whether data[name] is truthy: the outlines hold no null member, so it
\* is when the member is there.
Has(data, name) == name \in DOMAIN data

\* title || fallback.
TitleOr(section, fallback) ==
    IF ~Has(section, "title") THEN fallback
    ELSE IF section.title = "" THEN fallback
    ELSE section.title

\* The section of a point, labelled with its position in the list.
PointSectionLabelledByIndex(point, index) ==
    LET pointStartTime == (5 + index * 10) * 60
        pointEndTime == pointStartTime + 10 * 60
    IN  [start |-> pointStartTime,
         end |-> pointEndTime,
         label |-> "Ponto " \o ToString(index + 1),
         title |-> TitleOr(point, "Ponto " \o ToString(index + 1)),
         id |-> "sermon-point-" \o ToString(index)]

\* The section of the development point at index (45-54).
PointSection(point, index) ==
    LET pointStartTime == (5 + index * 10) * 60
        pointEndTime == pointStartTime + 10 * 60
    IN  [start |-> pointStartTime,
         end |-> pointEndTime,
         label |-> "Ponto " \o ToString(point.point),
         title |-> TitleOr(point, "Ponto " \o ToString(point.point)),
         id |-> "sermon-point-" \o ToString(index)]

\* The sections of development.forEach, in the order of the indices.
RECURSIVE PointSections(_, _)
PointSections(development, index) ==
    IF ToString(index) \notin DOMAIN development THEN <<>>
    ELSE <<PointSection(development[ToString(index)], index)>>
             \o PointSections(development, index + 1)

\* sectionMap (29-69).
SectionMap(data) ==
    IF data = Null THEN <<>>
    ELSE (IF Has(data, "introduction")
          THEN << [start |-> 0, end |-> 5 * 60, label |-> "Introducao",
                   title |-> TitleOr(data.introduction, "Introducao"),
                   id |-> "sermon-section-introduction"] >>
          ELSE <<>>)
         \o (IF Has(data, "development")
             THEN PointSections(data.development, 0)
             ELSE <<>>)
         \o (IF Has(data, "conclusion")
             THEN << [start |-> 35 * 60, end |-> 40 * 60,
                      label |-> "Conclusao",
                      title |-> TitleOr(data.conclusion, "Conclusao"),
                      id |-> "sermon-section-conclusion"] >>
             ELSE <<>>)

\* The labels are written without their diacritics.
\* What currentSectionInfo is when there is no section to report.
Undefined == [undefined |-> TRUE]

CompletedSection == [label |-> "Concluido", title |-> "Sermao finalizado."]

\* The largest element of a non-empty set of numbers.
Max(set) == CHOOSE x \in set : \A y \in set : y <= x

\* find without the reverse: the first section that has started.
FindFirstStarted(elapsed, sections) ==
    LET started == {i \in 1..Len(sections) : elapsed >= sections[i].start}
    IN  IF started = {} THEN Undefined ELSE sections[CHOOSE i \in started : \A j \in started : i <= j]

\* find with "elapsed > section.start".
FindLastStartedBefore(elapsed, sections) ==
    LET started == {i \in 1..Len(sections) : elapsed > sections[i].start}
    IN  IF started = {} THEN Undefined ELSE sections[Max(started)]

\* sectionMap.slice().reverse().find(section => elapsed >= section.start)
\* (147-149): the last section in list order that has started.
FindLastStarted(elapsed, sections) ==
    LET started == {i \in 1..Len(sections) : elapsed >= sections[i].start}
    IN  IF started = {} THEN Undefined ELSE sections[Max(started)]

\* currentSectionInfo without the test of lines 141-143.
CurrentSectionInfoNeverCompleted(elapsed, sections) ==
    IF elapsed <= 0 /\ Len(sections) > 0 THEN sections[1]
    ELSE LET currentSection == FindLastStarted(elapsed, sections)
         IN  IF currentSection # Undefined THEN currentSection
             ELSE IF Len(sections) > 0 THEN sections[1]
             ELSE Undefined

\* currentSectionInfo (140-151).
CurrentSectionInfo(elapsed, sections) ==
    IF elapsed >= TOTAL_DURATION THEN CompletedSection
    ELSE IF elapsed <= 0 /\ Len(sections) > 0 THEN sections[1]
    ELSE LET currentSection == FindLastStarted(elapsed, sections)
         IN  IF currentSection # Undefined THEN currentSection
             ELSE IF Len(sections) > 0 THEN sections[1]
             ELSE Undefined

\* The fraction of the total, not multiplied by 100.
ProgressFraction(elapsed) == [num |-> elapsed, den |-> TOTAL_DURATION]

\* progressPercentage (138): the quotient (elapsed / TOTAL_DURATION) * 100
\* as the fraction num / den.
ProgressPercentage(elapsed) ==
    [num |-> elapsed * 100, den |-> TOTAL_DURATION]

\* cancelAnimationFrame(id) on the host's pending frames.
CancelAnimationFrame(pending, id) == {f \in pending : f.id # id}

\* A cleanup that cancels nothing.
EffectCleanupForgotten(pending, ref) == pending

\* The cleanup of the effect (99-103).
EffectCleanup(pending, ref) ==
    IF ref # NoFrame THEN CancelAnimationFrame(pending, ref) ELSE pending

\* An effect that cancels no frame when the timer is not running.
FramesAfterEffectKeepsPending(pending, ref, running, elapsed, id) ==
    IF running
    THEN EffectCleanup(pending, ref) \cup {[id |-> id, elapsedTime |-> elapsed]}
    ELSE pending

\* The pending frames after the cleanup and the body of the effect (90-97)
\* of a render with isRunning = running and elapsedTime = elapsed; id is
\* the id of the frame the body requests.
FramesAfterEffect(pending, ref, running, elapsed, id) ==
    IF running
    THEN EffectCleanup(pending, ref) \cup {[id |-> id, elapsedTime |-> elapsed]}
    ELSE EffectCleanup(EffectCleanup(pending, ref), ref)

\* handleTogglePlay without the test of line 128.
ToggleNeverIgnored(elapsed, running) == FALSE

\* handleTogglePlay returns at once (128).
ToggleIgnored(elapsed, running) == elapsed >= TOTAL_DURATION /\ ~running

\* The play/pause button (127-130).
HandleTogglePlay ==
    /\ timerSermonData # Null
    /\ nextFrameId <= MaxFrameId
    /\ IF ToggleIgnored(elapsedTime, isRunning)
       THEN UNCHANGED << isRunning, startTimeRef, animationFrameRef, frames,
                         nextFrameId >>
       ELSE /\ isRunning' = ~isRunning
            /\ frames' = FramesAfterEffect(frames, animationFrameRef,
                                           ~isRunning, elapsedTime,
                                           nextFrameId)
            /\ IF ~isRunning
               THEN /\ animationFrameRef' = nextFrameId
                    /\ nextFrameId' = nextFrameId + 1
                    /\ UNCHANGED startTimeRef
               ELSE /\ startTimeRef' = NoStart
                    /\ UNCHANGED << animationFrameRef, nextFrameId >>
    /\ UNCHANGED << timerSermonData, elapsedTime, now, appVars >>

\* The completing tick without the clamp of line 80.
ElapsedNotClamped(currentElapsedTime) == currentElapsedTime

\* What the tick that completes the timer gives elapsedTime (80).
ElapsedAtCompletion(currentElapsedTime) == TOTAL_DURATION

\* A start time that leaves out the elapsed time accumulated before.
StartTimeWithoutAccumulated(ref, timestamp, elapsed) ==
    IF ref = NoStart THEN timestamp ELSE ref

\* startTimeRef.current after lines 73-75 of a tick at timestamp whose
\* closure holds elapsed.
StartTime(ref, timestamp, elapsed) ==
    IF ref = NoStart THEN timestamp - elapsed * 1000 ELSE ref

\* The animation frame f runs tick (72-88) when dt ms have passed.
TickFrame(f, dt) ==
    /\ f \in frames
    /\ now + dt <= MaxClock
    /\ nextFrameId + 1 <= MaxFrameId
    /\ now' = now + dt
    /\ LET timestamp == now + dt
           start == StartTime(startTimeRef, timestamp, f.elapsedTime)
           currentElapsedTime == (timestamp - start) \div 1000
       IN  IF currentElapsedTime >= TOTAL_DURATION
           THEN /\ elapsedTime' = ElapsedAtCompletion(currentElapsedTime)
                /\ isRunning' = FALSE
                /\ frames' = FramesAfterEffect(frames \ {f},
                                               animationFrameRef, FALSE,
                                               elapsedTime', nextFrameId)
                /\ startTimeRef' = NoStart
                /\ UNCHANGED << animationFrameRef, nextFrameId >>
           ELSE /\ elapsedTime' = currentElapsedTime
                /\ startTimeRef' = start
                /\ UNCHANGED isRunning
                /\ LET requested ==
                           (frames \ {f})
                               \cup {[id |-> nextFrameId,
                                      elapsedTime |-> f.elapsedTime]}
                   IN  IF currentElapsedTime # elapsedTime
                       THEN /\ frames' = FramesAfterEffect(
                                             requested, nextFrameId, TRUE,
                                             currentElapsedTime,
                                             nextFrameId + 1)
                            /\ animationFrameRef' = nextFrameId + 1
                            /\ nextFrameId' = nextFrameId + 2
                       ELSE /\ frames' = requested
                            /\ animationFrameRef' = nextFrameId
                            /\ nextFrameId' = nextFrameId + 1
    /\ UNCHANGED << timerSermonData, appVars >>

\* The reset button (132-136).
HandleReset ==
    /\ timerSermonData # Null
    /\ isRunning' = FALSE
    /\ elapsedTime' = 0
    /\ IF isRunning \/ elapsedTime # 0
       THEN /\ frames' = FramesAfterEffect(frames, animationFrameRef, FALSE,
                                           0, nextFrameId)
            /\ startTimeRef' = NoStart
       ELSE UNCHANGED << frames, startTimeRef >>
    /\ UNCHANGED << timerSermonData, animationFrameRef, nextFrameId, now,
                    appVars >>

\* dt ms pass while no animation frame is pending.
TimePasses(dt) ==
    /\ timerSermonData # Null
    /\ frames = {}
    /\ now + dt <= MaxClock
    /\ now' = now + dt
    /\ UNCHANGED << timerSermonData, elapsedTime, isRunning, startTimeRef,
                    animationFrameRef, frames, nextFrameId, appVars >>

(***************************************************************************)
(* The editable field (components/EditableField.tsx) in edit mode.         *)
(***************************************************************************)
\* What the user types: a letter, a delimiter, a line break.
FieldTokens == { << "a" >>, Delimiter, << "\n" >> }

\* What the contentEditable element adds to its innerHTML for a token: a
\* line break is a br element.
Serialised(token) ==
    IF token = << "\n" >> THEN << "<", "b", "r", ">" >> ELSE token

\* The user types a token at the end of the field (116-124).
FieldInput(token) ==
    /\ Len(parseToText(innerHTML)) + Len(token) <= MaxFieldLen
    /\ innerHTML' = innerHTML \o Serialised(token)
    /\ UNCHANGED << fieldValue, docVars, presVars, outlineReq, hasApiKey,
                    repoVars, toolbarVars, timerVars, lastOp >>

\* handleBlur (83-91): onChange gives the field its new value, and the
\* effect of lines 76-81 sets innerHTML after the render.
HandleBlur ==
    /\ LET newText == parseToText(innerHTML)
       IN  IF newText # fieldValue
           THEN /\ fieldValue' = newText
                /\ innerHTML' = parseToHtml(newText)
           ELSE UNCHANGED fieldVars
    /\ UNCHANGED << docVars, presVars, outlineReq, hasApiKey, repoVars,
                    toolbarVars, timerVars, lastOp >>

(***************************************************************************)
(* Spec: the document and its presentation data.  The user generates,      *)
(* loads and edits outlines and enters presentation mode; the saved        *)
(* sermons are those the fetch returned.                                   *)
(***************************************************************************)
Next ==
    \/ \E status \in FetchStatuses, body \in FetchBodies :
           FetchSavedSermons(status, body)
    \/ \E i \in 1..Len(savedSermons) : HandleLoadSermon(i)
    \/ \E passage \in Passages : HandleGenerateSermon(passage)
    \/ \E result \in ServiceResults, sermonJson \in ServiceOutlines :
           OutlineResponse(result, sermonJson)
    \/ OutlineInstall
    \/ ToggleEditMode
    \/ \E path \in EditPaths, value \in Texts :
           HandleSermonDataChange(path, value)
    \/ \E t \in timers : DebounceCallback(t)
    \/ HandleEnterPresentationMode
    \/ \E i \in 1..Len(genRequests), result \in ServiceResults :
           GenerationResponse(i, result)
    \/ SyncGeneratingRef
    \/ ExitPresentationMode
    \/ Tick

Spec == Init /\ [][Next]_vars

(***************************************************************************)
(* SpecRepo: the sermon repository.  The user generates and loads          *)
(* outlines, saves them and deletes saved sermons, while the requests to   *)
(* the document store succeed or fail.  The generation service is          *)
(* configured and answers, and it is asked for an outline only while none  *)
(* is displayed.                                                           *)
(***************************************************************************)
NextRepo ==
    \/ \E status \in FetchStatuses, body \in FetchBodies :
           FetchSavedSermons(status, body)
    \/ HandleSaveSermon
    \/ \E status \in PutStatuses : SaveResponse(status)
    \/ SaveSuccessTimeout
    \/ \E sermonId \in 0..MaxSaves : HandleDeleteSermon(sermonId)
    \/ \E i \in 1..Len(putDeletes), status \in PutStatuses :
           DeleteResponse(i, status)
    \/ \E i \in 1..Len(savedSermons) : HandleLoadSermon(i)
    \/ \E passage \in Passages :
           sermonData = Null /\ HandleGenerateSermon(passage)
    \/ \E sermonJson \in ServiceOutlines :
           OutlineResponse("ok", sermonJson)
    \/ OutlineInstall
    \/ Tick

InitRepo == Init /\ hasApiKey

SpecRepo == InitRepo /\ [][NextRepo]_vars

(***************************************************************************)
(* SpecEdit: the edits of the document.  The user loads and generates      *)
(* outlines and edits the rendered fields, by typing and through the AI    *)
(* toolbar; the store holds an outline with two development points and an  *)
(* outline with a title only.  After a fault the tree is unmounted and no  *)
(* handler runs.  Time does not pass: the timeouts of the edits stay       *)
(* pending.                                                                *)
(***************************************************************************)
NextEdit ==
    \/ ~appFault /\ FetchSavedSermons(200, EditFetchBody)
    \/ \E i \in 1..Len(savedSermons) : ~appFault /\ HandleLoadSermon(i)
    \/ \E passage \in Passages : ~appFault /\ HandleGenerateSermon(passage)
    \/ ~appFault /\ OutlineResponse("ok", PointsOutline)
    \/ ~appFault /\ OutlineInstall
    \/ ~appFault /\ ToggleEditMode
    \/ \E path \in AllEditPaths, value \in EditTexts :
           /\ ~appFault
           /\ FieldRendered(sermonData, path)
           /\ HandleSermonDataChange(path, value)
    \/ \E path \in AllEditPaths : HandleTextSelect(path)
    \/ \E action \in AiActions : HandleToolbarAction(action)
    \/ \E result \in {"ok", "rejected"}, newText \in EditTexts :
           ToolbarResponse(result, newText)

InitEdit == Init /\ hasApiKey

SpecEdit == InitEdit /\ [][NextEdit]_vars

(***************************************************************************)
(* SpecToolbar: an AI request of the toolbar and the typing of the user in *)
(* the field the text was selected in.  The fields stay editable while the *)
(* request is in flight (isAiEditing hides the toolbar only); the service  *)
(* answers with a text the user does not type.  One document is loaded.    *)
(***************************************************************************)
\* The texts the service answers with in SpecToolbar.
AiTexts == {"c"}

\* The fields text is selected in.
ToolbarPaths == { <<"title">>, <<"development", "1", "argument">> }

NextToolbar ==
    \/ ~appFault /\ FetchSavedSermons(200, EditFetchBody)
    \/ \E i \in 1..Len(savedSermons) :
           ~appFault /\ sermonData = Null /\ HandleLoadSermon(i)
    \/ ~appFault /\ ToggleEditMode
    \/ \E path \in ToolbarPaths, value \in EditTexts :
           /\ ~appFault
           /\ FieldRendered(sermonData, path)
           /\ HandleSermonDataChange(path, value)
    \/ \E path \in ToolbarPaths : HandleTextSelect(path)
    \/ \E action \in AiActions : HandleToolbarAction(action)
    \/ \E result \in {"ok", "rejected"}, newText \in AiTexts :
           ToolbarResponse(result, newText)

SpecToolbar == InitEdit /\ [][NextToolbar]_vars

(***************************************************************************)
(* SpecTimer: one SermonTimer, mounted in presentation mode with one of    *)
(* the outlines.  The user plays, pauses and resets; the host runs the     *)
(* animation frames, at the intervals of FrameSteps.                       *)
(***************************************************************************)
\* The ms between two animation frames, and the ms of a wait while paused.
FrameSteps == {1000, 299000, 600000, 1500000}

WaitSteps == {300000}

NextTimer ==
    \/ HandleTogglePlay
    \/ \E f \in frames, dt \in FrameSteps : TickFrame(f, dt)
    \/ HandleReset
    \/ \E dt \in WaitSteps : TimePasses(dt)

InitTimer ==
    \E data \in TimerOutlines :
        /\ InitApp
        /\ hasApiKey
        /\ InitSermonTimer(data, FirstTimestamp)
        /\ InitEditableField(<<>>)

SpecTimer == InitTimer /\ [][NextTimer]_vars

(***************************************************************************)
(* SpecRegen: the regeneration of the presentation data after edits.  The  *)
(* user loads a saved sermon and edits it; the timeouts run when they are  *)
(* due and the generation service answers every request with a result.     *)
(***************************************************************************)
NextRegen ==
    \/ \E body \in FetchBodies : FetchSavedSermons(200, body)
    \/ \E i \in 1..Len(savedSermons) :
           nextTimerId = 1 /\ HandleLoadSermon(i)
    \/ ToggleEditMode
    \/ \E path \in EditPaths, value \in Texts :
           HandleSermonDataChange(path, value)
    \/ \E t \in timers : DebounceCallback(t)
    \/ \E i \in 1..Len(genRequests) : GenerationResponse(i, "ok")
    \/ SyncGeneratingRef
    \/ Tick

InitRegen == Init /\ hasApiKey

\* The host runs a due timeout and a pending effect, time passes, and the
\* service answers.
FairRegen ==
    /\ WF_vars(\E t \in timers : DebounceCallback(t))
    /\ WF_vars(\E i \in 1..Len(genRequests) : GenerationResponse(i, "ok"))
    /\ WF_vars(SyncGeneratingRef)
    /\ WF_vars(Tick)

SpecRegen == InitRegen /\ [][NextRegen]_vars /\ FairRegen

(***************************************************************************)
(* SpecBusy: the asynchronous operations and their busy flags.  The user   *)
(* loads the sermon of the store, edits its title, saves it while the      *)
(* list holds one sermon, and enters the presentation mode; the store and  *)
(* the generation service answer, with a result or a failure.              *)
(***************************************************************************)
BusyFetchStatuses == {200, 500}

BusyResults == {"ok", "rejected"}

NextBusy ==
    \/ \E status \in BusyFetchStatuses :
           FetchSavedSermons(status, [kind |-> "array",
                                      record |-> <<SeedSermon>>])
    \/ sermonData = Null /\ HandleLoadSermon(1)
    \/ ~isEditing /\ ToggleEditMode
    \/ \E value \in Texts : HandleSermonDataChange(<<"title">>, value)
    \/ \E t \in timers : DebounceCallback(t)
    \/ HandleEnterPresentationMode
    \/ \E i \in 1..Len(genRequests), result \in BusyResults :
           GenerationResponse(i, result)
    \/ SyncGeneratingRef
    \/ Tick
    \/ Len(savedSermons) = 1 /\ HandleSaveSermon
    \/ \E status \in PutStatuses : SaveResponse(status)
    \/ SaveSuccessTimeout

\* Every request is answered, the oldest generation request first among
\* those the fairness speaks of; due timeouts and pending effects run and
\* time passes.
FairBusy ==
    /\ WF_vars(\E status \in BusyFetchStatuses :
                   FetchSavedSermons(status, [kind |-> "array",
                                              record |-> <<SeedSermon>>]))
    /\ WF_vars(\E status \in PutStatuses : SaveResponse(status))
    /\ WF_vars(\E result \in BusyResults : GenerationResponse(1, result))
    /\ WF_vars(\E t \in timers : DebounceCallback(t))
    /\ WF_vars(SyncGeneratingRef)
    /\ WF_vars(SaveSuccessTimeout)
    /\ WF_vars(Tick)

SpecBusy == Init /\ [][NextBusy]_vars /\ FairBusy

(***************************************************************************)
(* SpecField: one EditableField in edit mode.  The user types and leaves   *)
(* the field.                                                              *)
(***************************************************************************)
\* The values the field is mounted with.
FieldValues == { <<>>, << "a" >>, << "*", "*", "a", "*", "*" >> }

NextField ==
    \/ \E token \in FieldTokens : FieldInput(token)
    \/ HandleBlur

InitField ==
    \E value \in FieldValues :
        /\ InitApp
        /\ hasApiKey
        /\ InitSermonTimer(Null, FirstTimestamp)
        /\ InitEditableField(value)

SpecField == InitField /\ [][NextField]_vars

(***************************************************************************)
(* Properties of the repository client, checked under SpecRepo.            *)
(***************************************************************************)
Last(seq) == seq[Len(seq)]

Front(seq) == SubSeq(seq, 1, Len(seq) - 1)

\* The step is the call of handleSaveSermon.
SaveCalled == putSave = Null /\ putSave' # Null

\* C1: handleSaveSermon sets savedSermons to the list known at the call with
\* the record {id, passage, data, presentationData} of the current document
\* appended as its last element, before any response, and the body of the
\* PUT is that whole list.
C1_SaveAppendsAndOverwrites ==
    [][SaveCalled =>
          /\ sermonData # Null /\ currentPassage # ""
          /\ Len(savedSermons') = Len(savedSermons) + 1
          /\ Front(savedSermons') = savedSermons
          /\ Last(savedSermons').passage = currentPassage
          /\ Last(savedSermons').data = sermonData
          /\ Last(savedSermons').presentationData = presentationData
          /\ Last(savedSermons').id = nextId
          /\ putSave'.body = savedSermons'
          /\ isSaving']_vars

\* A save is in flight whose record was appended to a non-empty list.
C1_Witness ==
    /\ putSave # Null
    /\ Len(putSave.body) >= 2
    /\ savedSermons = putSave.body
    /\ Last(savedSermons).data = sermonData

\* C2: when the PUT of handleSaveSermon fails (network error or non-OK
\* status), savedSermons is again the list of the moment of the call (the
\* body of the PUT without its last record), saveError is set and
\* saveSuccess is false.
C2_FailedSaveRollsBack ==
    [][lastOp' = "SaveFailed" =>
          /\ savedSermons' = Front(putSave.body)
          /\ saveError' # NoMessage
          /\ ~saveSuccess'
          /\ ~isSaving']_vars

\* A save has failed and left a non-empty list behind.
C2_Witness ==
    /\ lastOp = "SaveFailed"
    /\ saveError # NoMessage
    /\ ~saveSuccess
    /\ Len(savedSermons) >= 1

\* The step is the call of handleDeleteSermon.
DeleteCalled == Len(putDeletes') > Len(putDeletes)

\* C3: handleDeleteSermon(id) at once sets savedSermons to the current list
\* without the records of that id and PUTs that list; when the write fails
\* savedSermons is the list of the moment of the call again and
\* loadSermonsError is set; when it succeeds the response changes nothing.
C3_DeleteFiltersAndRollsBack ==
    [][/\ DeleteCalled =>
             LET request == Last(putDeletes')
             IN  /\ savedSermons' =
                        SelectSeq(savedSermons,
                                  LAMBDA s : s.id # request.sermonId)
                 /\ Len(savedSermons') < Len(savedSermons)
                 /\ request.body = savedSermons'
                 /\ request.previousSermons = savedSermons
       /\ lastOp' = "DeleteFailed" =>
             /\ \E i \in 1..Len(putDeletes) :
                    /\ putDeletes' = RemoveAt(putDeletes, i)
                    /\ savedSermons' = putDeletes[i].previousSermons
             /\ loadSermonsError' # NoMessage
       /\ lastOp' = "DeleteSucceeded" =>
             /\ savedSermons' = savedSermons
             /\ loadSermonsError' = loadSermonsError]_vars

\* A delete has failed and its record is back in the list.
C3_Witness ==
    /\ lastOp = "DeleteFailed"
    /\ loadSermonsError # NoMessage
    /\ Len(savedSermons) >= 1

\* The step is the arrival of the response to the GET of fetchSavedSermons.
FetchAnswered == fetchResponse = Null /\ fetchResponse' # Null

\* C4: a 404 response to the fetch leaves savedSermons empty, no
\* loadSermonsError and isLoadingSermons false.
C4_NotFoundIsEmpty ==
    [][(FetchAnswered /\ fetchResponse'.status = 404) =>
          /\ savedSermons' = <<>>
          /\ loadSermonsError' = NoMessage
          /\ ~isLoadingSermons']_vars

\* The fetch was answered with 404.
C4_Witness ==
    /\ fetchResponse # Null
    /\ fetchResponse.status = 404
    /\ savedSermons = <<>>
    /\ loadSermonsError = NoMessage
    /\ ~isLoadingSermons

\* C5: a non-OK response other than 404, or a request that fails, ends the
\* fetch with loadSermonsError set, savedSermons empty and isLoadingSermons
\* false.
C5_FetchFailureIsAnError ==
    [][(/\ FetchAnswered
        /\ \/ fetchResponse'.status = NetworkError
           \/ ~ResponseOk(fetchResponse'.status) /\ fetchResponse'.status # 404)
       => /\ loadSermonsError' # NoMessage
          /\ savedSermons' = <<>>
          /\ ~isLoadingSermons']_vars

\* The fetch was answered with 500.
C5_Witness ==
    /\ fetchResponse # Null
    /\ fetchResponse.status = 500
    /\ loadSermonsError = FetchFailedMsg
    /\ savedSermons = <<>>
    /\ ~isLoadingSermons

(***************************************************************************)
(* Properties of the document and its presentation data, checked under     *)
(* Spec.                                                                   *)
(***************************************************************************)
\* C6: whenever a document is displayed, a presentationData that is present
\* is the rewrite of that document: no rewrite of an earlier document is
\* installed or left in place after sermonData has changed.
C6_PresentationIsOfCurrentDocument ==
    (sermonData # Null /\ presentationData # Null)
        => presentationData = Rewrite(sermonData)

\* The step is an edit through handleSermonDataChange.
Edited == nextTimerId' # nextTimerId

\* C7: every edit through handleSermonDataChange leaves presentationData
\* null in the step that installs the edited document.
C7_EditInvalidatesPresentation ==
    [][Edited => (sermonData' # sermonData /\ presentationData' = Null)]_vars

\* An edit has just been made and no presentation data is left.
C7_Witness ==
    /\ nextTimerId > 1
    /\ presentationData = Null
    /\ \E t \in timers : t.age = 0 /\ t.newData = sermonData

\* The step is the run of a debounce callback: a pending timeout goes and
\* the timer reference stays.
CallbackRan ==
    /\ timers' # timers
    /\ timers' \subseteq timers
    /\ debounceTimerRef' = debounceTimerRef
    /\ nextTimerId' = nextTimerId

\* C8: of the timeouts of a burst of edits only that of the last edit is
\* pending; it runs when exactly 2 s have passed since that edit, and when
\* the callback finds no generation in progress it starts one regeneration,
\* for the document of the last edit.
C8_DebounceCoalesces ==
    [][/\ Edited =>
             /\ timers' = {[id |-> nextTimerId, newData |-> sermonData',
                            age |-> 0]}
             /\ debounceTimerRef' = nextTimerId
       /\ CallbackRan =>
             /\ \E t \in timers :
                    /\ timers = {t} /\ timers' = {}
                    /\ t.id = nextTimerId - 1
                    /\ t.age = DebounceDelay
                    /\ (~isGeneratingRef /\ hasApiKey) =>
                           genRequests' =
                               Append(genRequests,
                                      [kind |-> "pre", source |-> t.newData])
       /\ \A t \in timers' : t.age <= DebounceDelay
       /\ Len(genRequests') > Len(genRequests) /\ Last(genRequests').kind = "pre"
             => CallbackRan]_vars

\* After three edits the one regeneration of the burst is in flight, for the
\* document as the last edit left it.
C8_Witness ==
    /\ nextTimerId >= 4
    /\ timers = {}
    /\ Len(genRequests) = 1
    /\ genRequests[1].kind = "pre"
    /\ genRequests[1].source = sermonData
    /\ isPreGenerating

\* C9: at most one presentation-generation request is outstanding.
C9_OneGenerationAtATime == Len(genRequests) <= 1

\* sermonData as it was when the handleGenerateSermon that now fails was
\* called.
DataBeforeGeneration ==
    IF outlineReq = Null THEN sermonData ELSE outlineReq.priorData

\* C10 as stated: a failed handleGenerateSermon leaves sermonData as it was
\* before the call.
C10_FailedGenerationKeepsDocument ==
    [][lastOp' = "GenerateFailed" => sermonData' = DataBeforeGeneration]_vars

\* C10 amended: a failed handleGenerateSermon leaves sermonData null, error
\* set and isLoading false.
C10_FailedGenerationClearsDocument ==
    [][lastOp' = "GenerateFailed" =>
          (sermonData' = Null /\ error' # NoMessage /\ ~isLoading')]_vars

\* A generation has failed.
C10_Witness ==
    /\ lastOp = "GenerateFailed"
    /\ sermonData = Null
    /\ error # NoMessage
    /\ ~isLoading

\* The step is the resumption of the debounce callback after its await: a
\* request leaves and isPreGenerating is cleared.
BackgroundResponded ==
    /\ Len(genRequests') < Len(genRequests)
    /\ isPreGenerating /\ ~isPreGenerating'

\* An on-demand generation of handleEnterPresentationMode is in flight.
OnDemandInFlight ==
    \E i \in 1..Len(genRequests) : genRequests[i].kind = "demand"

\* C11: when presentation mode has started its own on-demand generation
\* while a background regeneration was in flight, the result of the
\* background regeneration is ignored: its completion leaves
\* presentationData as it is.
C11_BackgroundResultIgnored ==
    [][(BackgroundResponded /\ OnDemandInFlight)
          => presentationData' = presentationData]_vars

(***************************************************************************)
(* Properties of the edits, checked under SpecEdit.                        *)
(***************************************************************************)
\* The paths of all the leaves a document of SpecEdit can have.
LeafPaths ==
    AllEditPaths \cup {<<"development", "0", "argument">>,
                       <<"development", "0", "point">>,
                       <<"development", "1", "point">>}

\* new has the leaves old has, with the values they have in old, except for
\* the leaf at path.
SameExceptAt(old, new, path) ==
    \A q \in LeafPaths \ {path} :
        /\ HasLeaf(new, q) <=> HasLeaf(old, q)
        /\ HasLeaf(old, q) => GetIn(new, q) = GetIn(old, q)

\* The step is the resumption of handleToolbarAction after its request.
ToolbarAnswered == aiRequest # Null /\ aiRequest' = Null

\* C12: an edit at a path that resolves to a leaf yields a document in which
\* that leaf has the new value and every other field has the value it had;
\* the records that hold the pre-edit document (the saved sermon it was
\* loaded from) are not changed.
C12_EditChangesOnlyItsLeaf ==
    [][Edited =>
          /\ \E p \in AllEditPaths :
                 /\ HasLeaf(sermonData', p)
                 /\ SameExceptAt(sermonData, sermonData', p)
          /\ ToolbarAnswered =>
                 /\ HasLeaf(sermonData', aiRequest.path)
                 /\ GetIn(sermonData', aiRequest.path) \in EditTexts
                 /\ SameExceptAt(sermonData, sermonData', aiRequest.path)
          /\ savedSermons' = savedSermons]_vars

\* The argument of the second development point was edited; the first
\* point, the title and the introduction are as the service gave them.
C12_Witness ==
    /\ sermonData # Null
    /\ HasLeaf(sermonData, <<"development", "1", "argument">>)
    /\ GetIn(sermonData, <<"development", "1", "argument">>) = "b"
    /\ GetIn(sermonData, <<"development", "0", "argument">>) = "a"
    /\ GetIn(sermonData, <<"development", "1", "point">>) = 2
    /\ GetIn(sermonData, <<"title">>) = "a"
    /\ GetIn(sermonData, <<"introduction", "hook">>) = "a"
    /\ nextTimerId > 1

\* C13: an edit whose path does not resolve in the current document (also
\* when no document is loaded) fails with a handled error: the document,
\* presentationData and the pending regeneration timer are unchanged and a
\* message is shown; nothing is thrown past the handler.
C13_InvalidPathIsHandled ==
    [][(ToolbarAnswered /\ ~PathResolves(sermonData, aiRequest.path)) =>
          /\ sermonData' = sermonData
          /\ presentationData' = presentationData
          /\ timers' = timers
          /\ debounceTimerRef' = debounceTimerRef
          /\ error' # NoMessage
          /\ ~appFault']_vars

(***************************************************************************)
(* Properties of the section timer, checked under SpecTimer.               *)
(***************************************************************************)
\* The outline with an introduction, the points 1..3 and a conclusion.
FullOutline ==
    [introduction |-> Section("I"), development |-> Points3,
     conclusion |-> Section("C")]

\* The outline without introduction.
HeadlessOutline ==
    [development |-> ("0" :> Point(3, "a") @@ "1" :> Point(7, "a")),
     conclusion |-> Section("")]

\* The sections of the mounted timer and the one it reports.
Sections == SectionMap(timerSermonData)

Reported == CurrentSectionInfo(elapsedTime, Sections)

\* The indices of the sections that have started at elapsed.
Started(elapsed) == {i \in 1..Len(Sections) : Sections[i].start <= elapsed}

\* C14 as stated: for 0 < elapsed < 2400 the reported section is the last
\* section in list order whose start <= elapsed; for elapsed = 0 and a
\* non-empty list it is the first section.
C14_LastStartedSection ==
    /\ (0 < elapsedTime /\ elapsedTime < TOTAL_DURATION
            /\ Len(Sections) > 0) =>
           \E i \in Started(elapsedTime) :
               /\ Reported = Sections[i]
               /\ \A j \in Started(elapsedTime) : j <= i
    /\ (elapsedTime = 0 /\ Len(Sections) > 0) => Reported = Sections[1]

\* C14 amended: as stated when some section has start <= elapsed; when none
\* has, the first section of the list is reported, and nothing when the
\* list is empty.
C14_LastStartedOrFirstSection ==
    /\ (0 < elapsedTime /\ elapsedTime < TOTAL_DURATION) =>
           IF Started(elapsedTime) # {}
           THEN \E i \in Started(elapsedTime) :
                    /\ Reported = Sections[i]
                    /\ \A j \in Started(elapsedTime) : j <= i
           ELSE IF Len(Sections) > 0 THEN Reported = Sections[1]
           ELSE Reported = Undefined
    /\ (elapsedTime = 0 /\ Len(Sections) > 0) => Reported = Sections[1]

\* One second has elapsed on the outline without introduction: no section
\* has started and the first one, of the point numbered 3, is reported.
C14_Witness ==
    /\ timerSermonData = HeadlessOutline
    /\ elapsedTime = 1
    /\ isRunning
    /\ Reported.label = "Ponto 3"

\* C15: whenever elapsed >= 2400 s the Completed section is reported,
\* whatever the sections are.
C15_CompletedAtTotal ==
    elapsedTime >= TOTAL_DURATION =>
        \A e \in {elapsedTime, elapsedTime + 300} :
            CurrentSectionInfo(e, Sections) = CompletedSection

\* The timer of the outline with five points, whose last point starts at
\* 2700 s, has run to the end.
C15_Witness ==
    /\ elapsedTime = TOTAL_DURATION
    /\ Len(Sections) = 7
    /\ Sections[6].start >= TOTAL_DURATION
    /\ ~isRunning

\* C16 as stated: with an introduction, three points and a conclusion,
\* elapsed = 2399 s reports "Ponto 3".
C16_Ponto3At2399 ==
    (timerSermonData = FullOutline /\ elapsedTime = 2399)
        => Reported.label = "Ponto 3"

\* C16 amended: elapsed = 2399 s reports the conclusion, which starts at
\* 2100 s; "Ponto 3" is reported from 1500 s to 2100 s.
C16_ConclusionAt2399 ==
    timerSermonData = FullOutline =>
        /\ elapsedTime = 2399 => Reported.label = "Conclusao"
        /\ (1500 <= elapsedTime /\ elapsedTime < 2100)
               => Reported.label = "Ponto 3"

\* 2399 s have elapsed on the full outline.
C16_Witness ==
    /\ timerSermonData = FullOutline
    /\ elapsedTime = 2399
    /\ Reported.label = "Conclusao"

\* The number of development points of an outline.
PointsOf(data) ==
    IF Has(data, "development")
    THEN Cardinality(DOMAIN data.development)
    ELSE 0

\* C17: the sections are the introduction [0, 300] if present, then for the
\* point at position i, in document order, [300 + 600 i, 900 + 600 i]
\* labelled with the point's number, then the conclusion [2100, 2400] if
\* present.
C17_SectionsOfOutline ==
    timerSermonData # Null =>
        LET hasIntro == Has(timerSermonData, "introduction")
            hasConclusion == Has(timerSermonData, "conclusion")
            first == IF hasIntro THEN 1 ELSE 0
            n == PointsOf(timerSermonData)
        IN  /\ Len(Sections) = first + n + (IF hasConclusion THEN 1 ELSE 0)
            /\ hasIntro =>
                   /\ Sections[1].start = 0 /\ Sections[1].end = 300
                   /\ Sections[1].label = "Introducao"
            /\ \A i \in 0..(n - 1) :
                   /\ Sections[first + i + 1].start = 300 + 600 * i
                   /\ Sections[first + i + 1].end = 900 + 600 * i
                   /\ Sections[first + i + 1].label =
                          "Ponto " \o ToString(
                              timerSermonData.development[ToString(i)].point)
            /\ hasConclusion =>
                   /\ Sections[Len(Sections)].start = 2100
                   /\ Sections[Len(Sections)].end = 2400
                   /\ Sections[Len(Sections)].label = "Conclusao"

\* The timer runs on the outline whose two points are numbered 3 and 7.
C17_Witness ==
    /\ timerSermonData = HeadlessOutline
    /\ Len(Sections) = 3
    /\ Sections[2].label = "Ponto 7"
    /\ Sections[2].start = 900
    /\ elapsedTime > 0

\* The timer is Completed.
Completed == elapsedTime = TOTAL_DURATION /\ ~isRunning

\* C18: once Completed, the timer stays Completed until reset: play/pause
\* has no effect.
C18_CompletedUntilReset ==
    [][Completed => (Completed' \/ (elapsedTime' = 0 /\ ~isRunning'))]_vars

\* The timer has run to the end and time has passed since.
C18_Witness ==
    /\ Completed
    /\ frames = {}
    /\ now >= FirstTimestamp + TOTAL_DURATION * 1000 + 300000

\* The step is a tick whose computed elapsed time reaches the total.
CompletingTick ==
    /\ frames # {}
    /\ now' # now
    /\ startTimeRef # NoStart
    /\ (now' - startTimeRef) \div 1000 >= TOTAL_DURATION

\* C19: the tick whose computed elapsed reaches or exceeds 2400 s sets
\* elapsed to exactly 2400 s and running to false and requests no frame;
\* no frame is pending while the timer is not running, and the timer never
\* runs with elapsed at the total.
C19_CompletingTickStops ==
    [][/\ CompletingTick =>
              /\ elapsedTime' = TOTAL_DURATION
              /\ ~isRunning'
              /\ frames' = {}
       /\ ~isRunning' => frames' = {}
       /\ isRunning' => elapsedTime' < TOTAL_DURATION]_vars

\* A tick that computed more than 2400 s has completed the timer.
C19_Witness ==
    /\ Completed
    /\ frames = {}
    /\ startTimeRef = NoStart
    /\ now > FirstTimestamp + 1000 + TOTAL_DURATION * 1000

\* C20: while the timer stays not running, elapsed keeps its value, unless
\* reset sets it to 0; no frame is pending after the pause.
C20_PauseFreezesElapsed ==
    [][/\ (~isRunning /\ ~isRunning') =>
              (elapsedTime' = elapsedTime \/ elapsedTime' = 0)
       /\ (isRunning /\ ~isRunning' /\ now' = now) =>
              (frames' = {} /\ elapsedTime' \in {elapsedTime, 0})]_vars

\* The timer was paused at 299 s and five minutes have passed since.
C20_Witness ==
    /\ ~isRunning
    /\ elapsedTime = 299
    /\ frames = {}
    /\ now >= FirstTimestamp + 299000 + 300000

\* The step is a tick that leaves the timer running.
RunningTick == frames # {} /\ now' # now /\ isRunning'

\* C21: a tick that leaves the timer running sets elapsed to (timestamp -
\* start) where start, fixed by the first tick after the activation, is
\* that tick's timestamp minus the elapsed time accumulated before; so the
\* first tick after an activation keeps elapsed, every later tick adds the
\* time since the tick before, and a start does not change elapsed.
C21_ElapsedFromTimestamps ==
    [][/\ RunningTick =>
              /\ elapsedTime' * 1000 = now' - startTimeRef'
              /\ IF startTimeRef = NoStart
                 THEN /\ startTimeRef' = now' - elapsedTime * 1000
                      /\ elapsedTime' = elapsedTime
                 ELSE /\ startTimeRef' = startTimeRef
                      /\ (elapsedTime' - elapsedTime) * 1000 = now' - now
       /\ (~isRunning /\ isRunning') => elapsedTime' = elapsedTime]_vars

\* The timer was paused at 299 s for at least five minutes and resumed,
\* and has ticked one second after the first tick of the resumption.
C21_Witness ==
    /\ isRunning
    /\ elapsedTime = 300
    /\ startTimeRef # NoStart
    /\ startTimeRef >= FirstTimestamp + 300000
    /\ now = startTimeRef + 300000

\* The timer is Idle.
Idle == elapsedTime = 0 /\ ~isRunning

\* C22: reset, from any state, leaves the timer Idle with no frame pending
\* and no start time kept; an Idle timer keeps elapsed = 0 in every step,
\* the next start included.
C22_ResetLeadsToIdle ==
    [][/\ HandleReset =>
              (Idle' /\ frames' = {} /\ startTimeRef' = NoStart)
       /\ Idle => elapsedTime' = 0
       /\ (Idle /\ ~isRunning') => frames' = {}]_vars

\* Two frames, 1 s apart, have run since the timer was mounted, the second
\* with elapsed = 1 s, and the timer was reset then.
C22_Witness ==
    /\ Idle
    /\ frames = {}
    /\ now = FirstTimestamp + 1000 + 1000

\* The progress percentage of the mounted timer.
Progress == ProgressPercentage(elapsedTime)

\* C23: the progress percentage is 100 * elapsed / 2400 and lies in
\* [0, 100], elapsed lying in [0, 2400]; elapsed = 1200 s gives 50.
C23_ProgressWithinBar ==
    /\ 0 <= elapsedTime /\ elapsedTime <= 2400
    /\ Progress.den > 0
    /\ Progress.num * 2400 = 100 * elapsedTime * Progress.den
    /\ 0 <= Progress.num /\ Progress.num <= 100 * Progress.den
    /\ elapsedTime = 1200 => Progress.num = 50 * Progress.den

\* The timer runs and has reached 1200 s.
C23_Witness ==
    /\ isRunning
    /\ elapsedTime = 1200
    /\ Progress.num = 50 * Progress.den

(***************************************************************************)
(* Properties of the markup codec, checked under SpecField.                *)
(***************************************************************************)
\* A character of plain text: no delimiter character and none of the
\* characters of markup.
PlainChar(c) == c \notin {"*", "<", ">", "&"}

\* text is made of plain text and of spans: a delimiter, plain text, a
\* delimiter.
RECURSIVE Balanced(_)
Balanced(text) ==
    IF text = <<>> THEN TRUE
    ELSE IF PlainChar(Head(text)) THEN Balanced(Tail(text))
    ELSE IF ~StartsWith(text, Delimiter) THEN FALSE
    ELSE LET stars == {j \in 3..Len(text) : text[j] = "*"}
             j == IF stars = {} THEN 0
                  ELSE CHOOSE i \in stars : \A k \in stars : i <= k
         IN  IF j = 0 THEN FALSE
             ELSE IF ~StartsWith(Drop(text, j - 1), Delimiter) THEN FALSE
             ELSE IF \E k \in 3..(j - 1) : ~PlainChar(text[k]) THEN FALSE
             ELSE Balanced(Drop(text, j + 1))

\* The number of delimiters of text, read from the left.
RECURSIVE Delimiters(_)
Delimiters(text) ==
    IF Len(text) < 2 THEN 0
    ELSE IF StartsWith(text, Delimiter) THEN 1 + Delimiters(Drop(text, 2))
    ELSE Delimiters(Tail(text))

\* C24 as stated: for every text of plain text and balanced spans,
\* parseToText(parseToHtml(text)) is the text.
C24_RoundTrip ==
    Balanced(fieldValue) => parseToText(parseToHtml(fieldValue)) = fieldValue

\* C25 as stated: for a text whose delimiters are unbalanced parseToHtml
\* makes no strong element and leaves the delimiters as they are.
C25_UnbalancedIsLiteral ==
    (Delimiters(fieldValue) % 2 = 1 /\ \A i \in DOMAIN fieldValue :
                                          fieldValue[i] \notin {"<", ">"})
        => parseToHtml(fieldValue) = fieldValue

(***************************************************************************)
(* Overlapping writes, checked under SpecRepo.                             *)
(***************************************************************************)
\* No write is in flight.
NoWriteInFlight == putSave = Null /\ putDeletes = <<>>

\* C26: once every write has been answered the list is the body of the
\* write called last among those that have succeeded.
C26_LastGoodWriteWins ==
    NoWriteInFlight =>
        \A body \in writeHistory.lastGood : savedSermons = body

(***************************************************************************)
(* Regeneration after the last edit, checked under SpecRegen.              *)
(***************************************************************************)
\* The document has been edited (each edit takes a timer id).
DocumentEdited == nextTimerId > 1

\* C27: once the document has been edited, presentationData is eventually,
\* and from then on, the result generated from the document.
C27_RegeneratedAfterLastEdit ==
    <>[](DocumentEdited => presentationData = Rewrite(sermonData))

(***************************************************************************)
(* The sections as a partition of the total, checked under SpecTimer.      *)
(***************************************************************************)
\* The mounted outline has an introduction, a conclusion and 2 to 4 points.
WithinContract ==
    /\ timerSermonData # Null
    /\ Has(timerSermonData, "introduction")
    /\ Has(timerSermonData, "conclusion")
    /\ PointsOf(timerSermonData) \in 2..4

\* C28 as stated: for an outline with an introduction, a conclusion and 2
\* to 4 points the sections do not overlap, end by 2400 s and cover
\* [0, 2400] without a gap, and every marker is passed when the timer is
\* Completed.
C28_SectionsPartitionTotal ==
    WithinContract =>
        /\ \A i, j \in 1..Len(Sections) :
               i < j => Sections[i].end <= Sections[j].start
        /\ \A i \in 1..Len(Sections) : Sections[i].end <= TOTAL_DURATION
        /\ Sections[1].start = 0
        /\ \A i \in 1..(Len(Sections) - 1) :
               Sections[i].end = Sections[i + 1].start
        /\ Sections[Len(Sections)].end = TOTAL_DURATION
        /\ Completed =>
               \A i \in 1..Len(Sections) : elapsedTime >= Sections[i].end

(***************************************************************************)
(* The busy flags, checked under SpecBusy.                                 *)
(***************************************************************************)
\* C29: each busy flag that is set is eventually cleared.
C29_BusyFlagsCleared ==
    /\ isLoadingSermons ~> ~isLoadingSermons
    /\ isSaving ~> ~isSaving
    /\ isPreGenerating ~> ~isPreGenerating
    /\ isGeneratingPresentation ~> ~isGeneratingPresentation

\* A save and a generation have failed and no flag is set.
C29_Witness ==
    /\ ~isLoadingSermons /\ ~isSaving
    /\ ~isPreGenerating /\ ~isGeneratingPresentation
    /\ saveError # NoMessage
    /\ error = ServiceFailedMsg

\* C30: the result of an AI toolbar request replaces the first occurrence of
\* the selected text in the value the field has when the request completes:
\* when the field was edited while the request was in flight and the
\* selected text no longer occurs in it, the completion leaves the value the
\* user typed.
C30_ResultAppliedToCurrentValue ==
    [][(/\ ToolbarAnswered
        /\ PathResolves(sermonData, aiRequest.path)
        /\ HasLeaf(sermonData, aiRequest.path)
        /\ GetIn(sermonData, aiRequest.path) # aiRequest.selectedText)
          => GetIn(sermonData', aiRequest.path)
                 = GetIn(sermonData, aiRequest.path)]_vars

====
